---- MODULE Spec2Model ----
(***************************************************************************)
(* air-monitor: the paired (meta, data) tables of a Monitor and the        *)
(* operators select, filterByValue, dropEmpty, trimDate, combine,          *)
(* collapse and getCurrentStatus.                                          *)
(*                                                                         *)
(* Conventions of the model                                                *)
(*   - a datetime is a UTC instant counted in whole hours;                 *)
(*   - a measurement is a finite number counted in hundredths (125 is      *)
(*     1.25), or one of the JavaScript non-values null / undefined / NaN;  *)
(*   - the arquero table engine is modelled by its documented behaviour    *)
(*     (select, slice, filter, concat, join_full, orderby, rollup, fold,   *)
(*     pivot), JavaScript objects by their property enumeration order.     *)
(***************************************************************************)
EXTENDS Integers, Sequences, FiniteSets, TLC

\* ------------------------------------------------------------------------
\* Bounds of the model
\* ------------------------------------------------------------------------

\* number of times a returned instance becomes the receiver of the next call
MaxChain == 2

\* ------------------------------------------------------------------------
\* Cells
\* ------------------------------------------------------------------------

Num(v) == [k |-> "num", v |-> v]
NULL == [k |-> "null", v |-> 0]
UNDEF == [k |-> "undef", v |-> 0]
NAN == [k |-> "nan", v |-> 0]

\* op.is_finite / Number.isFinite
is_finite(c) == c.k = "num"

\* op.valid counts the values that are neither null, undefined nor NaN
is_valid(c) == c.k = "num"

\* JavaScript `v == null`
is_nullish(c) == c.k \in {"null", "undef"}

\* ------------------------------------------------------------------------
\* Sequences
\* ------------------------------------------------------------------------

Range(s) == {s[i] : i \in DOMAIN s}

Min2(a, b) == IF a < b THEN a ELSE b

Max2(a, b) == IF a > b THEN a ELSE b

\* the elements of s that satisfy the membership in keep, in the order of s
RECURSIVE FilterIn(_, _)
FilterIn(s, keep) ==
  IF s = <<>> THEN <<>>
  ELSE IF Head(s) \in keep THEN <<Head(s)>> \o FilterIn(Tail(s), keep)
  ELSE FilterIn(Tail(s), keep)

\* a finite set of integers as an ascending sequence
RECURSIVE SortedSeq(_)
SortedSeq(S) ==
  IF S = {} THEN <<>>
  ELSE LET m == CHOOSE x \in S : \A y \in S : x <= y
       IN <<m>> \o SortedSeq(S \ {m})

\* position of the first occurrence of x in s, 0 when absent
IndexOf(s, x) ==
  IF \E i \in DOMAIN s : s[i] = x
  THEN CHOOSE i \in DOMAIN s : s[i] = x /\ \A j \in 1..(i - 1) : s[j] # x
  ELSE 0

\* ------------------------------------------------------------------------
\* The table engine (arquero), restricted to what the operators use
\* ------------------------------------------------------------------------

\* A data table: the datetime column, the other column names in table
\* order, and the cells of every one of those columns.
Table(datetime, names, col) == [datetime |-> datetime, names |-> names, col |-> col]

numRows(t) == Len(t.datetime)

hasColumns(t, ids) == \A i \in DOMAIN ids : ids[i] \in Range(t.names)

\* table.select(['datetime', ...ids]); the caller checks hasColumns first
\* (the engine throws "Unrecognized column" otherwise)
\* faulty variant: the columns are kept in the order of the table
tbl_select_tableOrder(t, ids) ==
  Table(t.datetime, FilterIn(t.names, Range(ids)), [id \in Range(ids) |-> t.col[id]])

tbl_select(t, ids) ==
  Table(t.datetime, ids, [c \in Range(ids) |-> t.col[c]])

\* table.slice(start, end): zero-based, end exclusive, a negative index
\* counts from the end of the table, both ends are clamped to the table
slice_start(n, start) == Max2(0, start + (IF start < 0 THEN n ELSE 0))

slice_end(n, end) == Min2(n, Max2(0, end + (IF end < 0 THEN n ELSE 0)))

tbl_slice(t, start, end) ==
  LET n == numRows(t)
      s == slice_start(n, start)
      e == slice_end(n, end)
  IN Table(SubSeq(t.datetime, s + 1, e), t.names,
           [c \in Range(t.names) |-> SubSeq(t.col[c], s + 1, e)])

\* tableL.join_full(tableR, 'datetime').orderby('datetime'): one row per
\* key of either side, the shared key column merged, the cells of the side
\* that has no row for the key left undefined
\* The join key is the instant: two timestamps of the same hour are one key,
\* whichever table they come from.

\* faulty variant: an inner join, only the timestamps both tables have
join_inner_orderby(tL, tR) ==
  LET keys == SortedSeq(Range(tL.datetime) \cap Range(tR.datetime))
      cell(t, c, key) == t.col[c][IndexOf(t.datetime, key)]
      names == tL.names \o tR.names
  IN Table(keys, names,
           [c \in Range(names) |->
              [r \in DOMAIN keys |->
                 IF c \in Range(tL.names) THEN cell(tL, c, keys[r])
                 ELSE cell(tR, c, keys[r])]])

\* faulty variant: a left join, only the timestamps of the left table
join_left_orderby(tL, tR) ==
  LET keys == SortedSeq(Range(tL.datetime))
      cell(t, c, key) ==
        IF IndexOf(t.datetime, key) = 0 THEN UNDEF
        ELSE t.col[c][IndexOf(t.datetime, key)]
      names == tL.names \o tR.names
  IN Table(keys, names,
           [c \in Range(names) |->
              [r \in DOMAIN keys |->
                 IF c \in Range(tL.names) THEN cell(tL, c, keys[r])
                 ELSE cell(tR, c, keys[r])]])

join_full_orderby(tL, tR) ==
  LET keys == SortedSeq(Range(tL.datetime) \cup Range(tR.datetime))
      cell(t, c, key) ==
        IF IndexOf(t.datetime, key) = 0 THEN UNDEF
        ELSE t.col[c][IndexOf(t.datetime, key)]
      names == tL.names \o tR.names
  IN Table(keys, names,
           [c \in Range(names) |->
              [r \in DOMAIN keys |->
                 IF c \in Range(tL.names) THEN cell(tL, c, keys[r])
                 ELSE cell(tR, c, keys[r])]])

\* Property enumeration order of a JavaScript object whose keys were
\* inserted in the order of `keys`: canonical array indices first, in
\* ascending numeric order, then every other string in insertion order.
ArrayIndex(key) ==
  CASE key = "7" -> 7
    [] key = "20" -> 20
    [] OTHER -> -1

ObjectKeys(keys) ==
  LET ints == {ArrayIndex(keys[i]) : i \in DOMAIN keys} \ {-1}
      sortedInts == SortedSeq(ints)
      intKeys == [i \in DOMAIN sortedInts |->
                    CHOOSE k \in Range(keys) : ArrayIndex(k) = sortedInts[i]]
      strKeys == {k \in Range(keys) : ArrayIndex(k) = -1}
  IN intKeys \o FilterIn(keys, strKeys)

\* ------------------------------------------------------------------------
\* helpers.js
\* ------------------------------------------------------------------------

\* op.round(v * 10) / 10 on a number counted in hundredths; Math.round
\* rounds a half towards plus infinity
round_tenth(v) == ((v + 5) \div 10) * 10

round1_cell(c) == IF is_finite(c) THEN Num(round_tenth(c.v)) ELSE NULL

round1(table) ==
  Table(table.datetime, table.names,
        [c \in Range(table.names) |->
           [r \in DOMAIN table.col[c] |-> round1_cell(table.col[c][r])]])

RECURSIVE SumCells(_)
SumCells(s) == IF s = <<>> THEN 0 ELSE Head(s).v + SumCells(Tail(s))

\* faulty variant: the sum of the finite numbers is divided by the number of
\* all entries, so a missing coordinate counts as zero
arrayMean_allEntries(arr) ==
  LET valid == SelectSeq(arr, is_finite)
  IN IF Len(arr) > 0 THEN Num(SumCells(valid) \div Len(arr)) ELSE NULL

\* arrayMean: the mean of the finite numbers of arr, null when there is none
arrayMean(arr) ==
  LET valid == SelectSeq(arr, is_finite)
  IN IF Len(valid) > 0 THEN Num(SumCells(valid) \div Len(valid)) ELSE NULL

\* validateDataTable, on tables whose datetime values are valid UTC instants:
\* datetimes exactly one hour apart, every other cell null or a finite number
\* faulty variant: the timestamps only have to increase
validateDataTable_increasing(table) ==
  /\ \A i \in 2..Len(table.datetime) :
       table.datetime[i] - table.datetime[i - 1] >= 1
  /\ \A c \in Range(table.names) : \A r \in DOMAIN table.col[c] :
       table.col[c][r] = NULL \/ is_finite(table.col[c][r])

validateDataTable(table) ==
  /\ \A i \in 2..Len(table.datetime) :
       table.datetime[i] - table.datetime[i - 1] = 1
  /\ \A c \in Range(table.names) : \A r \in DOMAIN table.col[c] :
       table.col[c][r] = NULL \/ is_finite(table.col[c][r])

\* ------------------------------------------------------------------------
\* Time zones (luxon DateTime.setZone)
\* ------------------------------------------------------------------------

\* setZone(tz).isValid && zoneName === tz
KnownZone(tz) == tz \in {"UTC", "America/Los_Angeles"}

\* setZone(tz).hour: the wall-clock hour of the UTC instant t. Hour 0 of the
\* model is a UTC midnight; Los Angeles is on standard time (UTC-8) until
\* the clocks go forward at 02:00 local time of the second day (instant 34),
\* and on daylight time (UTC-7) from then on.
LocalHour(tz, t) ==
  CASE tz = "UTC" -> t % 24
    [] tz = "America/Los_Angeles" ->
         IF t < 34 THEN (t + 16) % 24 ELSE (t + 17) % 24

\* ------------------------------------------------------------------------
\* Monitor instances and what an operator hands back
\* ------------------------------------------------------------------------

EmptyTable == Table(<<>>, <<>>, <<>>)

Monitor(meta, data) == [meta |-> meta, data |-> data]

\* the { meta, data } object returned by an internal function, or a throw
Ok(meta, data) == [kind |-> "ok", meta |-> meta, data |-> data]

Throw == [kind |-> "throw", meta |-> <<>>, data |-> EmptyTable]

\* meta.array('deviceDeploymentID')
getIDs(monitor) == [i \in DOMAIN monitor.meta |-> monitor.meta[i].deviceDeploymentID]

getDatetime(monitor) == monitor.data.datetime

\* ------------------------------------------------------------------------
\* transform.js
\* ------------------------------------------------------------------------

\* The `ids` argument of select: a string, an array of strings, or any
\* other JavaScript value.
StrArg(s) == [t |-> "string", s |-> s, a |-> <<>>]
ArrArg(a) == [t |-> "array", s |-> "", a |-> a]
OtherArg == [t |-> "other", s |-> "", a |-> <<>>]

\* faulty variant: a list with a repeated identifier is not rejected
internal_select_noDuplicateCheck(monitor, idsArg) ==
  LET ids == IF idsArg.t = "string" THEN <<idsArg.s>> ELSE idsArg.a
      known == Range(getIDs(monitor))
      metaRows == [i \in DOMAIN ids |->
                     monitor.meta[IndexOf(getIDs(monitor), ids[i])]]
  IN IF idsArg.t = "other" \/ Len(ids) = 0 THEN Throw
     ELSE IF \E i \in DOMAIN ids : ids[i] \notin known THEN Throw
     ELSE IF ~hasColumns(monitor.data, ids) THEN Throw
     ELSE Ok(metaRows, round1(tbl_select(monitor.data, ids)))

internal_select(monitor, idsArg) ==
  LET ids == IF idsArg.t = "string" THEN <<idsArg.s>> ELSE idsArg.a
      known == Range(getIDs(monitor))
      metaRows == [i \in DOMAIN ids |->
                     monitor.meta[IndexOf(getIDs(monitor), ids[i])]]
  IN IF idsArg.t = "other" \/ Len(ids) = 0 THEN Throw
     ELSE IF Cardinality(Range(ids)) # Len(ids) THEN Throw
     ELSE IF \E i \in DOMAIN ids : ids[i] \notin known THEN Throw
     ELSE IF ~hasColumns(monitor.data, ids) THEN Throw
     ELSE Ok(metaRows, round1(tbl_select(monitor.data, ids)))

MetaColumns == {"deviceDeploymentID", "locationName", "stateCode", "longitude", "latitude"}

\* the metadata columns that hold strings; the others hold numbers
StringColumns == {"deviceDeploymentID", "locationName", "stateCode"}

\* typeof monitor.meta.get(columnName): the type of the value in the first row
TypeOfColumn(meta, columnName) ==
  IF Len(meta) = 0 THEN "undefined"
  ELSE IF columnName \in StringColumns THEN "string"
  ELSE CASE meta[1][columnName].k \in {"num", "nan"} -> "number"
         [] meta[1][columnName].k = "null" -> "object"
         [] meta[1][columnName].k = "undef" -> "undefined"

\* parseFloat of the values used as filter arguments: the longest numeric
\* prefix (in the unit of the coordinates), NaN when there is none
parseFloat(value) ==
  CASE value = "-120" -> Num(-144000)
    [] value = "-120abc" -> Num(-144000)
    [] OTHER -> NAN

\* faulty variant: the data table is passed through without selecting the
\* columns of the rows that were kept
internal_filterByValue_keepData(monitor, columnName, value) ==
  LET colType == TypeOfColumn(monitor.meta, columnName)
      parsedValue == parseFloat(value)
      keep(row) == IF colType = "number" THEN row[columnName] = parsedValue
                   ELSE row[columnName] = value
      meta == SelectSeq(monitor.meta, keep)
  IN IF columnName \notin MetaColumns THEN Throw
     ELSE IF colType = "number" /\ parsedValue = NAN THEN Throw
     ELSE IF colType \notin {"number", "string"} THEN Throw
     ELSE Ok(meta, round1(monitor.data))

internal_filterByValue(monitor, columnName, value) ==
  LET colType == TypeOfColumn(monitor.meta, columnName)
      parsedValue == parseFloat(value)
      keep(row) == IF colType = "number" THEN row[columnName] = parsedValue
                   ELSE row[columnName] = value
      meta == SelectSeq(monitor.meta, keep)
      ids == [i \in DOMAIN meta |-> meta[i].deviceDeploymentID]
  IN IF columnName \notin MetaColumns THEN Throw
     ELSE IF colType = "number" /\ parsedValue = NAN THEN Throw
     ELSE IF colType \notin {"number", "string"} THEN Throw
     ELSE IF ~hasColumns(monitor.data, ids) THEN Throw
     ELSE Ok(meta, round1(tbl_select(monitor.data, ids)))

\* number of values of a column that op.valid counts
validCount(column) == Len(SelectSeq(column, is_valid))

\* faulty variant: a series is kept whatever its count of valid values
internal_dropEmpty_keepAll(monitor) ==
  LET data == monitor.data
      ids == data.names
      validIDs == ObjectKeys(ids)
      keepRow(row) == row.deviceDeploymentID \in Range(validIDs)
  IN Ok(SelectSeq(monitor.meta, keepRow), round1(tbl_select(data, validIDs)))

internal_dropEmpty(monitor) ==
  LET data == monitor.data
      ids == data.names
      countRow == [id \in Range(ids) |-> validCount(data.col[id])]
      validIDs == FilterIn(ObjectKeys(ids), {id \in Range(ids) : countRow[id] > 0})
      keepRow(row) == row.deviceDeploymentID \in Range(validIDs)
  IN Ok(SelectSeq(monitor.meta, keepRow), round1(tbl_select(data, validIDs)))

\* every value of every data column of the table is null or undefined
allInvalid(table) ==
  \A c \in Range(table.names) : \A r \in DOMAIN table.col[c] :
    is_nullish(table.col[c][r])

\* faulty variant: a zone that is not recognized leaves the table untrimmed
internal_trimDate_anyZone(monitor, timezone, trimEmptyDays) ==
  LET datetime == monitor.data.datetime
      n == Len(datetime)
      startHour == LocalHour(timezone, datetime[1])
      endHour == LocalHour(timezone, datetime[n])
      startTrim == IF startHour = 0 THEN 0 ELSE 24 - startHour
      endTrim == IF endHour = 23 THEN 0 ELSE endHour + 1
  IN IF n = 0 THEN Throw
     ELSE IF ~KnownZone(timezone) THEN Ok(monitor.meta, round1(monitor.data))
     ELSE Ok(monitor.meta, round1(tbl_slice(monitor.data, startTrim, n - endTrim)))

internal_trimDate(monitor, timezone, trimEmptyDays) ==
  LET datetime == monitor.data.datetime
      n == Len(datetime)
      startHour == LocalHour(timezone, datetime[1])
      endHour == LocalHour(timezone, datetime[n])
      startTrim == IF startHour = 0 THEN 0 ELSE 24 - startHour
      endTrim == IF endHour = 23 THEN 0 ELSE endHour + 1
      start0 == startTrim
      end0 == n - endTrim
      allInvalidStart == allInvalid(tbl_slice(monitor.data, start0, start0 + 24))
      start == IF trimEmptyDays /\ allInvalidStart THEN start0 + 24 ELSE start0
      allInvalidEnd == allInvalid(tbl_slice(monitor.data, end0 - 24, end0))
      end == IF trimEmptyDays /\ allInvalidEnd THEN end0 - 24 ELSE end0
  IN IF n = 0 THEN Throw
     ELSE IF ~KnownZone(timezone) THEN Throw
     ELSE Ok(monitor.meta, round1(tbl_slice(monitor.data, start, end)))

\* faulty variant: the metadata rows of monitorB are all appended
internal_combine_allOfB(monitorA, monitorB) ==
  LET idsA == Range(getIDs(monitorA))
      idsB == getIDs(monitorB)
      uniqueIDs == FilterIn(idsB, Range(idsB) \ idsA)
      dataB == tbl_select(monitorB.data, uniqueIDs)
      combinedData == join_full_orderby(monitorA.data, dataB)
  IN IF ~hasColumns(monitorB.data, uniqueIDs) THEN Throw
     ELSE Ok(monitorA.meta \o monitorB.meta, round1(combinedData))

\* faulty variant: a series that both instances have is taken from monitorB
internal_combine_argumentWins(monitorA, monitorB) ==
  LET idsB == Range(getIDs(monitorB))
      idsA == getIDs(monitorA)
      uniqueIDs == FilterIn(idsA, Range(idsA) \ idsB)
      keepRow(row) == row.deviceDeploymentID \in Range(uniqueIDs)
      metaA == SelectSeq(monitorA.meta, keepRow)
      dataA == tbl_select(monitorA.data, uniqueIDs)
      combinedData == join_full_orderby(dataA, monitorB.data)
  IN IF ~hasColumns(monitorA.data, uniqueIDs) THEN Throw
     ELSE Ok(metaA \o monitorB.meta, round1(combinedData))

internal_combine(monitorA, monitorB) ==
  LET idsA == Range(getIDs(monitorA))
      idsB == getIDs(monitorB)
      uniqueIDs == FilterIn(idsB, Range(idsB) \ idsA)
      keepRow(row) == row.deviceDeploymentID \in Range(uniqueIDs)
      metaB == SelectSeq(monitorB.meta, keepRow)
      dataB == tbl_select(monitorB.data, uniqueIDs)
      combinedMeta == monitorA.meta \o metaB
      combinedData == join_full_orderby(monitorA.data, dataB)
  IN IF ~hasColumns(monitorB.data, uniqueIDs) THEN Throw
     ELSE Ok(combinedMeta, round1(combinedData))

\* `xxx_${deviceID}`
PrefixedID(deviceID) ==
  CASE deviceID = "avg" -> "xxx_avg"
    [] OTHER -> "xxx_generatedID"

RECURSIVE MaxCells(_)
MaxCells(s) ==
  IF Len(s) = 1 THEN s[1].v ELSE Max2(Head(s).v, MaxCells(Tail(s)))

\* the aggregate op[FUN] over the values that fold() and pivot() group
\* under one timestamp, followed by the rounding of round1
\* faulty variant: a missing value counts as zero and enters the divisor
aggregate_nullAsZero(FUN, values) ==
  LET valid == SelectSeq(values, is_valid)
      n == Len(values)
  IN CASE FUN = "count" -> Num(round_tenth(Len(values) * 100))
       [] Len(valid) = 0 -> NULL
       [] FUN = "mean" ->
            Num(((2 * SumCells(valid) + 10 * n) \div (20 * n)) * 10)
       [] FUN = "sum" -> Num(round_tenth(SumCells(valid)))
       [] FUN = "max" -> Num(round_tenth(MaxCells(valid)))

aggregate(FUN, values) ==
  LET valid == SelectSeq(values, is_valid)
      n == Len(valid)
  IN CASE FUN = "count" -> Num(round_tenth(Len(values) * 100))
       [] n = 0 -> NULL
       [] FUN = "mean" ->
            Num(((2 * SumCells(valid) + 10 * n) \div (20 * n)) * 10)
       [] FUN = "sum" -> Num(round_tenth(SumCells(valid)))
       [] FUN = "max" -> Num(round_tenth(MaxCells(valid)))

\* op.format_utcdate: the ISO text of a UTC instant, as its calendar day and
\* hour of day; two instants give the same text exactly when they are equal
format_utcdate(t) == [date |-> t \div 24, hour |-> t % 24]

\* DateTime.fromISO(key, { zone: 'utc' })
fromISO(key) == key.date * 24 + key.hour

\* faulty variant: a timestamp at which no series holds a value is left out
internal_collapse_dropEmptyRows(monitor, deviceID, FUN) ==
  LET meta == monitor.meta
      data == monitor.data
      ids == getIDs(monitor)
      rowsKept == SelectSeq([r \in DOMAIN data.datetime |-> r],
                    LAMBDA r : \E i \in DOMAIN ids : is_valid(data.col[ids[i]][r]))
      value == [k \in DOMAIN rowsKept |->
                  aggregate(FUN, [i \in DOMAIN ids |-> data.col[ids[i]][rowsKept[k]]])]
      new_data == Table([k \in DOMAIN rowsKept |-> data.datetime[rowsKept[k]]],
                        <<deviceID>>, [c \in {deviceID} |-> value])
  IN IF ~hasColumns(data, ids) THEN Throw
     ELSE IF Len(ids) = 0 \/ numRows(data) = 0 THEN Throw
     ELSE Ok(SubSeq(meta, 1, 1), new_data)

internal_collapse(monitor, deviceID, FUN) ==
  LET meta == monitor.meta
      data == monitor.data
      longitude == arrayMean([i \in DOMAIN meta |-> meta[i].longitude])
      latitude == arrayMean([i \in DOMAIN meta |-> meta[i].latitude])
      new_meta == [i \in DOMAIN SubSeq(meta, 1, Min2(1, Len(meta))) |->
                     [meta[i] EXCEPT !.locationName = deviceID,
                                     !.longitude = longitude,
                                     !.latitude = latitude,
                                     !.deviceDeploymentID = PrefixedID(deviceID)]]
      ids == getIDs(monitor)
      datetimeColumns == [r \in DOMAIN data.datetime |-> format_utcdate(data.datetime[r])]
      \* fold(ids) and pivot(): the values of every series in the rows that
      \* share the key, aggregated into the column of that key
      rowsOf(key) == SelectSeq([r \in DOMAIN datetimeColumns |-> r],
                               LAMBDA r : datetimeColumns[r] = key)
      folded(key) ==
        [j \in 1..(Len(rowsOf(key)) * Len(ids)) |->
           data.col[ids[((j - 1) % Len(ids)) + 1]][rowsOf(key)[((j - 1) \div Len(ids)) + 1]]]
      pivoted == [key \in Range(datetimeColumns) |-> aggregate(FUN, folded(key))]
      \* fold(datetimeColumns): one row per name, in the order of the names
      new_data == Table([r \in DOMAIN datetimeColumns |-> fromISO(datetimeColumns[r])],
                        <<deviceID>>,
                        [c \in {deviceID} |->
                           [r \in DOMAIN datetimeColumns |-> pivoted[datetimeColumns[r]]]])
  IN IF ~hasColumns(data, ids) THEN Throw
     ELSE IF Len(ids) = 0 \/ numRows(data) = 0 THEN Throw
     ELSE Ok(new_meta, new_data)

\* ------------------------------------------------------------------------
\* geojson.js
\* ------------------------------------------------------------------------

\* op.max of the column in which every finite value was replaced by its
\* zero-based row index and every other value by 0
lastValidIndex(column) ==
  LET idx == {r - 1 : r \in {q \in DOMAIN column : is_finite(column[q])}} \cup {0}
  IN CHOOSE m \in idx : \A x \in idx : x <= m

\* the metadata rows with the columns lastValidDatetime and lastValidPM_25;
\* lastValidDatetime is -1 where JavaScript has undefined
internal_getCurrentStatus(monitor) ==
  LET data == monitor.data
      ids == getIDs(monitor)
      lastValidIndexObj == [id \in Range(ids) |-> lastValidIndex(data.col[id])]
      keys == ObjectKeys(ids)
      lastValidIndices == [i \in DOMAIN keys |-> lastValidIndexObj[keys[i]]]
      at(column, i) == IF i + 1 \in DOMAIN column THEN column[i + 1] ELSE UNDEF
      lastValidDatetime ==
        [i \in DOMAIN lastValidIndices |->
           IF lastValidIndices[i] + 1 \in DOMAIN data.datetime
           THEN data.datetime[lastValidIndices[i] + 1] ELSE -1]
      lastValidValues ==
        [i \in DOMAIN ids |-> at(data.col[ids[i]], lastValidIndices[i])]
      rows == [i \in DOMAIN monitor.meta |->
                 [deviceDeploymentID |-> monitor.meta[i].deviceDeploymentID,
                  locationName |-> monitor.meta[i].locationName,
                  stateCode |-> monitor.meta[i].stateCode,
                  longitude |-> monitor.meta[i].longitude,
                  latitude |-> monitor.meta[i].latitude,
                  lastValidDatetime |-> lastValidDatetime[i],
                  lastValidPM_25 |-> lastValidValues[i]]]
  IN IF ~hasColumns(data, ids) THEN Throw
     ELSE [kind |-> "ok", meta |-> rows, data |-> EmptyTable]

\* ------------------------------------------------------------------------
\* Monitor.js: the public methods. Each hands back the receiver as the call
\* leaves it (`this`), and what the call returns (`ret`): a new Monitor, a
\* table, or a throw.
\* ------------------------------------------------------------------------

NoRet == [kind |-> "none", meta |-> <<>>, data |-> EmptyTable, fresh |-> FALSE]

\* const result = new Monitor(meta, data); assertIsMonitor(result); return result
NewMonitor(r) ==
  IF r.kind = "throw"
  THEN [kind |-> "throw", meta |-> <<>>, data |-> EmptyTable, fresh |-> FALSE]
  ELSE [kind |-> "monitor", meta |-> r.meta, data |-> r.data, fresh |-> TRUE]

Monitor_collapse(this, deviceID, FUN) ==
  [this |-> this, ret |-> NewMonitor(internal_collapse(this, deviceID, FUN))]

\* faulty variant: the joined tables are stored back into the receiver
Monitor_combine_inPlace(this, monitor) ==
  LET r == NewMonitor(internal_combine(this, monitor))
  IN [this |-> IF r.kind = "monitor" THEN Monitor(r.meta, r.data) ELSE this,
      arg |-> monitor, ret |-> r]

Monitor_combine(this, monitor) ==
  [this |-> this, arg |-> monitor, ret |-> NewMonitor(internal_combine(this, monitor))]

Monitor_select(this, ids) ==
  [this |-> this, ret |-> NewMonitor(internal_select(this, ids))]

Monitor_filterByValue(this, column, value) ==
  [this |-> this, ret |-> NewMonitor(internal_filterByValue(this, column, value))]

Monitor_dropEmpty(this) ==
  [this |-> this, ret |-> NewMonitor(internal_dropEmpty(this))]

Monitor_trimDate(this, timezone) ==
  [this |-> this, ret |-> NewMonitor(internal_trimDate(this, timezone, TRUE))]

Monitor_getCurrentStatus(this) ==
  LET r == internal_getCurrentStatus(this)
  IN [this |-> this,
      ret |-> IF r.kind = "throw"
              THEN [kind |-> "throw", meta |-> <<>>, data |-> EmptyTable, fresh |-> FALSE]
              ELSE [kind |-> "table", meta |-> r.meta, data |-> EmptyTable, fresh |-> TRUE]]

\* ------------------------------------------------------------------------
\* The instances the program starts from: two datasets as the loader leaves
\* them after parsing, "A" with three deployments and "B" with two, one of
\* which ("7") is also in A with other metadata and other measurements.
\* ------------------------------------------------------------------------

DatasetIDs(src) == IF src = "A" THEN <<"wa_a1", "20", "7">> ELSE <<"7", "or_b2">>

\* longitude and latitude are counted in units of 1/1200 of a degree
MetaRow(src, id) ==
  [deviceDeploymentID |-> id,
   locationName |-> IF src = "A" THEN "Alder" ELSE "Birch",
   stateCode |-> IF id = "wa_a1" \/ id = "20" THEN "WA" ELSE "OR",
   longitude |-> CASE id = "wa_a1" -> Num(-144000)
                   [] id = "20" -> NAN
                   [] id = "7" /\ src = "A" -> Num(-146400)
                   [] OTHER -> Num(-144000),
   latitude |-> CASE id = "wa_a1" -> Num(56400)
                  [] id = "20" -> Num(57600)
                  [] id = "7" -> NAN
                  [] OTHER -> Num(54000)]

BaseValue(src, id) ==
  CASE src = "A" /\ id = "wa_a1" -> 105
    [] src = "A" /\ id = "20" -> 200
    [] src = "A" /\ id = "7" -> 30
    [] src = "B" /\ id = "7" -> 900
    [] OTHER -> 445

\* the measurement of deployment id at instant t, where row is the
\* zero-based row of t in its file
Measurement(src, id, t, row, nulls) ==
  IF \/ nulls = "all"
     \/ nulls = "column" /\ id = DatasetIDs(src)[2]
     \/ nulls = "firstDay" /\ row < 24
     \/ nulls = "twoDays" /\ row < 48
     \/ nulls = "sparse" /\ row % 2 = 1
  THEN NULL
  ELSE Num(BaseValue(src, id) + 10 * (t % 3))

Dataset(src, cfg) ==
  LET ids == DatasetIDs(src)
      datetime == [r \in 1..cfg.len |-> cfg.start + r - 1]
  IN Monitor([i \in DOMAIN ids |-> MetaRow(src, ids[i])],
             Table(datetime, ids,
                   [id \in Range(ids) |->
                      [r \in 1..cfg.len |->
                         Measurement(src, id, datetime[r], r - 1, cfg.nulls)]]))

Cfg(start, len, nulls) == [start |-> start, len |-> len, nulls |-> nulls]

ReceiverConfigs ==
  {Cfg(0, 3, "none"), Cfg(0, 4, "column"), Cfg(0, 4, "sparse"),
   Cfg(33, 50, "none"), Cfg(0, 48, "firstDay"), Cfg(0, 24, "all")}

ArgumentConfigs == {Cfg(1, 3, "none"), Cfg(5, 2, "none")}

\* ------------------------------------------------------------------------
\* Arguments of the calls
\* ------------------------------------------------------------------------

SelectArgs ==
  {ArrArg(a) : a \in {<<>>, <<"7">>, <<"20">>, <<"wa_a1">>, <<"nope">>,
                      <<"7", "wa_a1">>, <<"wa_a1", "7">>, <<"20", "wa_a1">>,
                      <<"7", "20">>, <<"20", "7">>, <<"or_b2", "7">>,
                      <<"7", "7">>, <<"nope", "nope">>, <<"7", "nope">>,
                      <<"wa_a1", "20", "7">>, <<"20", "7", "wa_a1">>,
                      <<"wa_a1", "avg">>, <<"xxx_avg">>}}
  \cup {StrArg("7"), StrArg("nope"), StrArg(""), OtherArg}

FilterArgs ==
  {<<"stateCode", "WA">>, <<"stateCode", "OR">>, <<"stateCode", "-120">>,
   <<"longitude", "-120">>, <<"longitude", "-120abc">>, <<"longitude", "WA">>,
   <<"latitude", "-120">>, <<"elevation", "0">>}

Timezones == {"UTC", "America/Los_Angeles", "Mars/Phobos"}

AggregateNames == {"mean", "sum", "max", "count"}

\* ------------------------------------------------------------------------
\* parse.js and the tables that aq.loadCSV hands to it
\* ------------------------------------------------------------------------

\* a cell that holds text
Str(s) == [k |-> "str", v |-> 0, s |-> s]

\* the numbers Infinity and -Infinity
INF == [k |-> "inf", v |-> 1]
NEGINF == [k |-> "inf", v |-> -1]

\* A value of the datetime column: whether it is a luxon DateTime, whether
\* it is valid, its zone name, and its instant in hours.
DateTimeValue(isDateTime, isValid, zoneName, ts) ==
  [isDateTime |-> isDateTime, isValid |-> isValid, zoneName |-> zoneName, ts |-> ts]

\* DateTime.fromISO(s, { zone: 'UTC' }) of a well-formed timestamp
UtcDateTime(ts) == DateTimeValue(TRUE, TRUE, "UTC", ts)

\* A table as the CSV reader delivers it. The first column is datetime
\* unless hasDatetime is FALSE, in which case the table has no datetime
\* column and its first column is names[1].
CsvTable(hasDatetime, datetime, names, col) ==
  [hasDatetime |-> hasDatetime, datetime |-> datetime, names |-> names, col |-> col]

\* op.parse_float: null and undefined pass through, a number is itself,
\* text gives its leading number or NaN
parse_float(c) ==
  CASE c.k \in {"null", "undef", "num", "nan", "inf"} -> c
    [] c.k = "str" /\ c.s = "12.3" -> Num(1230)
    [] c.k = "str" /\ c.s = "-5" -> Num(-500)
    [] c.k = "str" /\ c.s = "0.04" -> Num(4)
    [] OTHER -> NAN

\* d[id] === 'NA' ? null : op.parse_float(d[id])
replaceNA(c) == IF c = Str("NA") THEN NULL ELSE parse_float(c)

\* faulty variant: the clamp tests `<= 0`, which null satisfies
clampNegative_lessOrEqual(c) ==
  IF (c.k \in {"num", "inf"} /\ c.v <= 0) \/ c.k = "null" THEN Num(0) ELSE c

\* d[id] < 0 ? 0 : d[id]; null, undefined and NaN are not less than zero
clampNegative(c) ==
  IF c.k \in {"num", "inf"} /\ c.v < 0 THEN Num(0) ELSE c

\* d[id] != null && !op.is_finite(d[id]) ? null : d[id]
replaceNonFinite(c) ==
  IF ~is_nullish(c) /\ ~is_finite(c) THEN NULL ELSE c

\* the checks of validateDataTable on the datetime column itself
validDatetimeColumn(table) ==
  /\ table.hasDatetime
  /\ \A i \in DOMAIN table.datetime :
       /\ table.datetime[i].isDateTime
       /\ table.datetime[i].isValid
       /\ table.datetime[i].zoneName = "UTC"

\* validateDataTable on a table of the CSV reader: TRUE when it returns,
\* FALSE when it throws
validateDataTable_csv(table) ==
  /\ validDatetimeColumn(table)
  /\ validateDataTable(Table([i \in DOMAIN table.datetime |-> table.datetime[i].ts],
                             table.names, table.col))

\* faulty variant: the cleaned table is returned without validating it
parseData_unvalidated(dt) ==
  LET ids == IF dt.hasDatetime THEN dt.names ELSE Tail(dt.names)
      cleanedCol == [c \in Range(dt.names) |->
                       IF c \in Range(ids)
                       THEN [r \in DOMAIN dt.col[c] |->
                               replaceNonFinite(clampNegative(replaceNA(dt.col[c][r])))]
                       ELSE dt.col[c]]
  IN [kind |-> "table",
      data |-> CsvTable(dt.hasDatetime, dt.datetime, dt.names, cleanedCol)]

\* parseData: the three derive() passes over every column but the first,
\* then the validation of the result
parseData(dt) ==
  LET ids == IF dt.hasDatetime THEN dt.names ELSE Tail(dt.names)
      cleanedCol == [c \in Range(dt.names) |->
                       IF c \in Range(ids)
                       THEN [r \in DOMAIN dt.col[c] |->
                               replaceNonFinite(clampNegative(replaceNA(dt.col[c][r])))]
                       ELSE dt.col[c]]
      cleaned == CsvTable(dt.hasDatetime, dt.datetime, dt.names, cleanedCol)
  IN IF validateDataTable_csv(cleaned)
     THEN [kind |-> "table", data |-> cleaned]
     ELSE [kind |-> "throw", data |-> CsvTable(TRUE, <<>>, <<>>, <<>>)]

\* ------------------------------------------------------------------------
\* load.js: a load call fetches the two files, each with a retry, and then
\* parses them into the instance
\* ------------------------------------------------------------------------

MaxLoads == 2

Loads == 1..MaxLoads

Files == {"meta", "data"}

\* a load call that has not been made
IdleLoad ==
  [pc |-> "idle",
   source |-> "none",
   request |-> [f \in Files |-> "none"],
   attempt |-> [f \in Files |-> 0],
   requests |-> [f \in Files |-> 0],
   value |-> [f \in Files |-> "none"]]

NoLoads == [l \in Loads |-> IdleLoad]

\* ------------------------------------------------------------------------
\* The state machine: a caller holds a receiver and an argument instance,
\* calls a method of the receiver, and may go on with the returned instance
\* (method chaining).
\* ------------------------------------------------------------------------

VARIABLES recv, arg, ret, call, chain, loads

vars == <<recv, arg, ret, call, chain, loads>>

Call(op, this0, arg0, ids, column, value, timezone, FUN) ==
  [op |-> op, this0 |-> this0, arg0 |-> arg0, ids |-> ids, column |-> column,
   value |-> value, timezone |-> timezone, FUN |-> FUN]

NoCall == Call("none", Monitor(<<>>, EmptyTable), Monitor(<<>>, EmptyTable),
               OtherArg, "", "", "", "")

Init ==
  /\ \E cfg \in ReceiverConfigs : recv = Dataset("A", cfg)
  /\ \E cfg \in ArgumentConfigs : arg = Dataset("B", cfg)
  /\ ret = NoRet
  /\ call = NoCall
  /\ chain = 0
  /\ loads = NoLoads

Select ==
  /\ call.op = "none"
  /\ \E ids \in SelectArgs :
       LET r == Monitor_select(recv, ids)
       IN /\ recv' = r.this
          /\ ret' = r.ret
          /\ call' = Call("select", recv, arg, ids, "", "", "", "")
          /\ UNCHANGED <<arg, chain>>
  /\ UNCHANGED loads

FilterByValue ==
  /\ call.op = "none"
  /\ \E a \in FilterArgs :
       LET r == Monitor_filterByValue(recv, a[1], a[2])
       IN /\ recv' = r.this
          /\ ret' = r.ret
          /\ call' = Call("filterByValue", recv, arg, OtherArg, a[1], a[2], "", "")
          /\ UNCHANGED <<arg, chain>>
  /\ UNCHANGED loads

DropEmpty ==
  /\ call.op = "none"
  /\ LET r == Monitor_dropEmpty(recv)
     IN /\ recv' = r.this
        /\ ret' = r.ret
        /\ call' = Call("dropEmpty", recv, arg, OtherArg, "", "", "", "")
        /\ UNCHANGED <<arg, chain>>
  /\ UNCHANGED loads

TrimDate ==
  /\ call.op = "none"
  /\ \E tz \in Timezones :
       LET r == Monitor_trimDate(recv, tz)
       IN /\ recv' = r.this
          /\ ret' = r.ret
          /\ call' = Call("trimDate", recv, arg, OtherArg, "", "", tz, "")
          /\ UNCHANGED <<arg, chain>>
  /\ UNCHANGED loads

Combine ==
  /\ call.op = "none"
  /\ LET r == Monitor_combine(recv, arg)
     IN /\ recv' = r.this
        /\ arg' = r.arg
        /\ ret' = r.ret
        /\ call' = Call("combine", recv, arg, OtherArg, "", "", "", "")
        /\ UNCHANGED chain
  /\ UNCHANGED loads

Collapse ==
  /\ call.op = "none"
  /\ \E FUN \in AggregateNames :
       LET r == Monitor_collapse(recv, "avg", FUN)
       IN /\ recv' = r.this
          /\ ret' = r.ret
          /\ call' = Call("collapse", recv, arg, OtherArg, "", "", "", FUN)
          /\ UNCHANGED <<arg, chain>>
  /\ UNCHANGED loads

GetCurrentStatus ==
  /\ call.op = "none"
  /\ LET r == Monitor_getCurrentStatus(recv)
     IN /\ recv' = r.this
        /\ ret' = r.ret
        /\ call' = Call("getCurrentStatus", recv, arg, OtherArg, "", "", "", "")
        /\ UNCHANGED <<arg, chain>>
  /\ UNCHANGED loads

\* the caller goes on with the instance the call returned: the next call of
\* a method chain is made on it
Chain ==
  /\ ret.kind = "monitor"
  /\ chain < MaxChain
  /\ recv' = Monitor(ret.meta, ret.data)
  /\ ret' = NoRet
  /\ call' = NoCall
  /\ chain' = chain + 1
  /\ UNCHANGED arg
  /\ UNCHANGED loads

\* the caller keeps the returned instance as the argument of a later combine
ChainArg ==
  /\ ret.kind = "monitor"
  /\ chain < MaxChain
  /\ arg' = Monitor(ret.meta, ret.data)
  /\ ret' = NoRet
  /\ call' = NoCall
  /\ chain' = chain + 1
  /\ UNCHANGED recv
  /\ UNCHANGED loads

\* the caller is done with what the call returned or threw and keeps the
\* receiver for the next call
Drop ==
  /\ call.op # "none"
  /\ ret' = NoRet
  /\ call' = NoCall
  /\ UNCHANGED <<recv, arg, chain>>
  /\ UNCHANGED loads

Next ==
  \/ Select
  \/ FilterByValue
  \/ DropEmpty
  \/ TrimDate
  \/ Combine
  \/ Collapse
  \/ GetCurrentStatus
  \/ Chain
  \/ ChainArg
  \/ Drop

Spec == Init /\ [][Next]_vars

\* the structural operators alone, chained in any order
NextStructural ==
  \/ Select
  \/ FilterByValue
  \/ DropEmpty
  \/ TrimDate
  \/ Combine
  \/ Chain
  \/ ChainArg
  \/ Drop

SpecStructural == Init /\ [][NextStructural]_vars

\* ------------------------------------------------------------------------
\* Parsing and validation called on their own, on tables of three rows, of
\* no rows, and without a datetime column
\* ------------------------------------------------------------------------

NotDateTime == DateTimeValue(FALSE, FALSE, "", -1)
InvalidDateTime == DateTimeValue(TRUE, FALSE, "", -1)
LocalDateTime(ts) == DateTimeValue(TRUE, TRUE, "America/Los_Angeles", ts)

RawDatetimeColumns ==
  {<<UtcDateTime(0), UtcDateTime(1), UtcDateTime(2)>>,
   <<UtcDateTime(22), UtcDateTime(23), UtcDateTime(24)>>,
   <<UtcDateTime(0), UtcDateTime(2), UtcDateTime(3)>>,
   <<UtcDateTime(0), UtcDateTime(1), UtcDateTime(3)>>,
   <<UtcDateTime(0), UtcDateTime(0), UtcDateTime(1)>>,
   <<UtcDateTime(2), UtcDateTime(1), UtcDateTime(0)>>,
   <<UtcDateTime(0), InvalidDateTime, UtcDateTime(2)>>,
   <<LocalDateTime(0), LocalDateTime(1), LocalDateTime(2)>>,
   <<UtcDateTime(0), UtcDateTime(1), LocalDateTime(2)>>,
   <<UtcDateTime(0), UtcDateTime(1), NotDateTime>>}

RawColumns ==
  {<<Num(1230), Num(0), Num(55)>>,
   <<Num(-500), NULL, Num(1230)>>,
   <<NULL, NULL, NULL>>,
   <<Str("NA"), Str("12.3"), Str("-5")>>,
   <<Str("0.04"), Str("abc"), Str("NA")>>,
   <<NAN, INF, NEGINF>>,
   <<Num(-1), UNDEF, Num(1)>>}

SecondColumns == {<<Num(10), Num(20), Num(30)>>, <<Num(10), Str("NA"), Num(-30)>>}

RawTables ==
  {CsvTable(TRUE, dt, <<"a">>, [c \in {"a"} |-> a]) :
     dt \in RawDatetimeColumns, a \in RawColumns}
  \cup {CsvTable(TRUE, dt, <<"a", "b">>, [c \in {"a", "b"} |-> IF c = "a" THEN a ELSE b]) :
          dt \in RawDatetimeColumns, a \in RawColumns, b \in SecondColumns}
  \cup {CsvTable(FALSE, <<>>, <<"a", "b">>, [c \in {"a", "b"} |-> IF c = "a" THEN a ELSE b]) :
          a \in RawColumns, b \in SecondColumns}
  \cup {CsvTable(TRUE, <<>>, <<"a">>, [c \in {"a"} |-> <<>>]),
        CsvTable(TRUE, <<>>, <<>>, <<>>)}

\* a call of one of the two functions, and what it gave
FunctionCall(op, table) == [op |-> op, table |-> table]

InitParse ==
  /\ recv = Monitor(<<>>, CsvTable(TRUE, <<>>, <<>>, <<>>))
  /\ arg = Monitor(<<>>, CsvTable(TRUE, <<>>, <<>>, <<>>))
  /\ ret = NoRet
  /\ call = NoCall
  /\ chain = 0
  /\ loads = NoLoads

\* parseData(dt)
ParseData ==
  /\ \E dt \in RawTables :
       /\ call' = FunctionCall("parseData", dt)
       /\ ret' = parseData(dt)
  /\ UNCHANGED <<recv, arg, chain, loads>>

\* validateDataTable(table), on a table as read or as cleaned
ValidateDataTable ==
  /\ \E dt \in RawTables : \E table \in {dt, parseData(dt).data} :
       /\ call' = FunctionCall("validateDataTable", table)
       /\ ret' = [kind |-> IF validateDataTable_csv(table) THEN "void" ELSE "throw",
                  data |-> table]
  /\ UNCHANGED <<recv, arg, chain, loads>>

NextParse ==
  \/ ParseData
  \/ ValidateDataTable

SpecParse == InitParse /\ [][NextParse]_vars

\* ------------------------------------------------------------------------
\* load.js: loadWithRetry, providerLoad, internal_loadCustom. Each load call
\* requests the metadata file and the data file of one archive, retries a
\* failed request, and assigns both tables once both requests have settled.
\* ------------------------------------------------------------------------

\* loadWithRetry(url, maxAttempts = 2)
maxAttempts == 2

\* the archives a load can name
Sources == {"A", "B"}

\* what the server can answer for a data file
DataVariants == {"hourly", "gap"}

\* a row of <name>_meta.csv: a coordinate that is missing is written NA
RawMetaRow(src, id) ==
  [MetaRow(src, id) EXCEPT
     !.longitude = IF @ = NAN THEN Str("NA") ELSE @,
     !.latitude = IF @ = NAN THEN Str("NA") ELSE @]

MetaFile(src) ==
  [i \in 1..Len(DatasetIDs(src)) |-> RawMetaRow(src, DatasetIDs(src)[i])]

\* <name>_data.csv: two rows; the first series holds a negative reading and
\* an NA, the others a number and an empty cell
DataFile(src, variant) ==
  CsvTable(TRUE,
           IF variant = "hourly" THEN <<UtcDateTime(0), UtcDateTime(1)>>
           ELSE <<UtcDateTime(0), UtcDateTime(2)>>,
           DatasetIDs(src),
           [id \in Range(DatasetIDs(src)) |->
              IF id = DatasetIDs(src)[1] THEN <<Num(-500), Str("NA")>>
              ELSE <<Num(BaseValue(src, id)), NULL>>])

\* parseMeta: 'NA' becomes null in every column, longitude and latitude go
\* through parseFloat (null gives NaN); the columns of the model are all kept
parseMeta(dt) ==
  LET values1(c) == IF c = Str("NA") THEN NULL ELSE c
      floatValues(c) == IF c.k = "num" THEN c ELSE NAN
  IN [i \in DOMAIN dt |->
        [dt[i] EXCEPT !.longitude = floatValues(values1(@)),
                      !.latitude = floatValues(values1(@))]]

\* a settled promise of Promise.allSettled
Settled(status, value) == [status |-> status, value |-> value]

\* faulty variant: each table is assigned as soon as its own file is there
providerLoad_partial(monitor, metaResult, dataResult) ==
  LET withMeta == IF metaResult.status = "fulfilled"
                  THEN [monitor EXCEPT !.meta = parseMeta(metaResult.value)]
                  ELSE monitor
      parsed == parseData(dataResult.value)
  IN IF dataResult.status = "fulfilled" /\ parsed.kind = "table"
     THEN [this |-> [withMeta EXCEPT !.data = parsed.data],
           kind |-> IF metaResult.status = "fulfilled" THEN "resolved" ELSE "rejected"]
     ELSE [this |-> withMeta, kind |-> "rejected"]

\* faulty variant: a successful load replaces the data table only
providerLoad_dataOnly(monitor, metaResult, dataResult) ==
  IF metaResult.status = "fulfilled" /\ dataResult.status = "fulfilled"
  THEN LET parsed == parseData(dataResult.value)
       IN IF parsed.kind = "table"
          THEN [this |-> [monitor EXCEPT !.data = parsed.data], kind |-> "resolved"]
          ELSE [this |-> monitor, kind |-> "rejected"]
  ELSE [this |-> monitor, kind |-> "rejected"]

\* providerLoad / internal_loadCustom after `await Promise.allSettled(...)`:
\* monitor.meta is assigned before parseData(dataCSV) is evaluated
providerLoad(monitor, metaResult, dataResult) ==
  IF metaResult.status = "fulfilled" /\ dataResult.status = "fulfilled"
  THEN LET meta == parseMeta(metaResult.value)
           parsed == parseData(dataResult.value)
       IN IF parsed.kind = "table"
          THEN [this |-> Monitor(meta, parsed.data), kind |-> "resolved"]
          ELSE [this |-> [monitor EXCEPT !.meta = meta], kind |-> "rejected"]
  ELSE [this |-> monitor, kind |-> "rejected"]

\* the file a fulfilled request delivered
Content(load, f) ==
  CASE load.request[f] # "fulfilled" -> <<>>
    [] f = "meta" -> MetaFile(load.source)
    [] OTHER -> DataFile(load.source, load.value[f])

\* new Monitor()
InitLoad ==
  /\ recv = Monitor(<<>>, CsvTable(TRUE, <<>>, <<>>, <<>>))
  /\ arg = Monitor(<<>>, CsvTable(TRUE, <<>>, <<>>, <<>>))
  /\ ret = NoRet
  /\ call = NoCall
  /\ chain = 0
  /\ loads = NoLoads

\* monitor.loadCustom(...) or loadLatest/loadDaily/loadAnnual: both
\* loadWithRetry calls issue their first request before the call awaits
LoadStart(l, src) ==
  /\ loads[l].pc = "idle"
  /\ loads' = [loads EXCEPT ![l] =
       [pc |-> "fetching",
        source |-> src,
        request |-> [f \in Files |-> "pending"],
        attempt |-> [f \in Files |-> 0],
        requests |-> [f \in Files |-> 1],
        value |-> [f \in Files |-> "none"]]]
  /\ UNCHANGED <<recv, arg, ret, call, chain>>

\* aq.loadCSV(url) resolves: loadWithRetry returns the table
FetchSucceed(l, f, variant) ==
  /\ loads[l].pc = "fetching"
  /\ loads[l].request[f] = "pending"
  /\ loads' = [loads EXCEPT ![l].request[f] = "fulfilled",
                            ![l].value[f] = IF f = "data" THEN variant ELSE "meta"]
  /\ UNCHANGED <<recv, arg, ret, call, chain>>

\* faulty variant: one more request is issued after maxAttempts failures
FetchFail_oneMore(l, f) ==
  /\ loads[l].pc = "fetching"
  /\ loads[l].request[f] = "pending"
  /\ LET attempt == loads[l].attempt[f] + 1
     IN loads' = IF attempt > maxAttempts
                 THEN [loads EXCEPT ![l].attempt[f] = attempt,
                                    ![l].request[f] = "rejected"]
                 ELSE [loads EXCEPT ![l].attempt[f] = attempt,
                                    ![l].requests[f] = @ + 1]
  /\ UNCHANGED <<recv, arg, ret, call, chain>>

\* aq.loadCSV(url) rejects: attempt++, then either rethrow or loop once more
FetchFail(l, f) ==
  /\ loads[l].pc = "fetching"
  /\ loads[l].request[f] = "pending"
  /\ LET attempt == loads[l].attempt[f] + 1
     IN loads' = IF attempt >= maxAttempts
                 THEN [loads EXCEPT ![l].attempt[f] = attempt,
                                    ![l].request[f] = "rejected"]
                 ELSE [loads EXCEPT ![l].attempt[f] = attempt,
                                    ![l].requests[f] = @ + 1]
  /\ UNCHANGED <<recv, arg, ret, call, chain>>

\* the continuation after Promise.allSettled: runs once both promises have
\* settled, without yielding between the two assignments; the call frame
\* is gone afterwards, the outcome of each promise is kept for the record
LoadSettle(l) ==
  /\ loads[l].pc = "fetching"
  /\ \A f \in Files : loads[l].request[f] \in {"fulfilled", "rejected"}
  /\ LET out == providerLoad(recv,
                   Settled(loads[l].request["meta"], Content(loads[l], "meta")),
                   Settled(loads[l].request["data"], Content(loads[l], "data")))
     IN /\ recv' = out.this
        /\ loads' = [loads EXCEPT ![l] =
             [IdleLoad EXCEPT !.pc = out.kind,
                              !.request = loads[l].request,
                              !.value = loads[l].value]]
  /\ UNCHANGED <<arg, ret, call, chain>>

NextLoad ==
  \/ \E l \in Loads : \E src \in Sources : LoadStart(l, src)
  \/ \E l \in Loads : \E f \in Files : \E variant \in DataVariants :
       FetchSucceed(l, f, variant)
  \/ \E l \in Loads : \E f \in Files : FetchFail(l, f)
  \/ \E l \in Loads : LoadSettle(l)

SpecLoad == InitLoad /\ [][NextLoad]_vars

\* ------------------------------------------------------------------------
\* helpers.js validateDeviceID, analysis.js and Monitor.js: the accessors
\* that take the identifier of one device.
\* ------------------------------------------------------------------------

\* an array argument that holds an item which is not a string, e.g. [42]
ArrOfOtherArg == [t |-> "array_other", s |-> "", a |-> <<>>]

\* table.columnNames(): the datetime column comes first
columnNames(table) == <<"datetime">> \o table.names

\* table.array(name); an instant of the datetime column is read as a number
array(table, name) ==
  IF name = "datetime"
  THEN [i \in DOMAIN table.datetime |-> Num(table.datetime[i])]
  ELSE table.col[name]

\* the timezone column of the metadata: the zone of the state of the row
timezoneOf(row) ==
  IF row.stateCode \in {"WA", "OR"} THEN "America/Los_Angeles" ELSE "UTC"

Resolved(deviceID) == [kind |-> "ok", deviceID |-> deviceID]

NotResolved == [kind |-> "throw", deviceID |-> ""]

\* the string the argument stands for: a string, or the only item of an
\* array of length one that holds a string
resolveID(id) ==
  CASE id.t = "string" -> Resolved(id.s)
    [] id.t = "array" /\ Len(id.a) = 1 -> Resolved(id.a[1])
    [] OTHER -> NotResolved

validateDeviceID(monitor, id) ==
  LET r == resolveID(id)
  IN IF r.kind = "throw" THEN NotResolved
     ELSE IF r.deviceID \notin Range(columnNames(monitor.data)) THEN NotResolved
     ELSE r

\* what an accessor hands back: a throw, or a value given as a list of cells
Returned(kind, value) ==
  [kind |-> kind, meta |-> <<>>, data |-> EmptyTable, fresh |-> FALSE,
   value |-> value]

Thrown == Returned("throw", <<>>)

internal_getTimezone(monitor, id) ==
  LET r == resolveID(id)
      ids == getIDs(monitor)
  IN IF r.kind = "throw" THEN Thrown
     ELSE IF r.deviceID \notin Range(ids) THEN Thrown
     ELSE Returned("string",
                   <<Str(timezoneOf(monitor.meta[IndexOf(ids, r.deviceID)]))>>)

\* v === null || v === undefined || isNaN(v) ? null : Math.round(v * 10) / 10
internal_getPM25(monitor, id) ==
  LET r == validateDeviceID(monitor, id)
      data == array(monitor.data, r.deviceID)
  IN IF r.kind = "throw" THEN Thrown
     ELSE Returned("array", [i \in DOMAIN data |-> round1_cell(data[i])])

\* pm_nowcast(pm25) of air-monitor-algorithms is given the unrounded series
internal_getNowcast(monitor, id) ==
  LET r == validateDeviceID(monitor, id)
  IN IF r.kind = "throw" THEN Thrown
     ELSE Returned("nowcast", array(monitor.data, r.deviceID))

\* dailyStats(datetime, pm25, timezone) of air-monitor-algorithms is given
\* the rounded series
internal_getDailyStats(monitor, id) ==
  LET r == validateDeviceID(monitor, id)
      pm25 == internal_getPM25(monitor, StrArg(r.deviceID))
      timezone == internal_getTimezone(monitor, StrArg(r.deviceID))
  IN IF r.kind = "throw" THEN Thrown
     ELSE IF pm25.kind = "throw" \/ timezone.kind = "throw" THEN Thrown
     ELSE Returned("dailyStats", pm25.value)

\* this.meta.array(fieldName)[this.getIDs().indexOf(resolvedID)]
Monitor_getMetadata(this, id, fieldName) ==
  LET r == validateDeviceID(this, id)
      ids == getIDs(this)
  IN IF r.kind = "throw" THEN Thrown
     ELSE IF r.deviceID \notin Range(ids) THEN Returned("value", <<UNDEF>>)
     ELSE Returned("value", <<Str(this.meta[IndexOf(ids, r.deviceID)][fieldName])>>)

\* this.select(resolvedID).meta.object()
Monitor_getMetaObject(this, id) ==
  LET r == validateDeviceID(this, id)
      selected == internal_select(this, StrArg(r.deviceID))
  IN IF r.kind = "throw" THEN Thrown
     ELSE IF selected.kind = "throw" THEN Thrown
     ELSE Returned("object", <<Str(selected.meta[1].deviceDeploymentID)>>)

Accessors ==
  {"getPM25", "getNowcast", "getDailyStats", "getMetadata", "getMetaObject",
   "getTimezone"}

Access(this, name, id) ==
  CASE name = "getPM25" -> internal_getPM25(this, id)
    [] name = "getNowcast" -> internal_getNowcast(this, id)
    [] name = "getDailyStats" -> internal_getDailyStats(this, id)
    [] name = "getMetadata" -> Monitor_getMetadata(this, id, "stateCode")
    [] name = "getMetaObject" -> Monitor_getMetaObject(this, id)
    [] OTHER -> internal_getTimezone(this, id)

\* the identifier arguments: strings, lists of length 0, 1 and 2, a list
\* holding a number, and a value that is neither a string nor a list
IdArgs ==
  {StrArg(s) : s \in {"wa_a1", "20", "7", "or_b2", "nope", "", "datetime"}}
  \cup {ArrArg(a) : a \in {<<>>, <<"wa_a1">>, <<"7">>, <<"nope">>, <<"datetime">>,
                           <<"wa_a1", "7">>, <<"7", "7">>}}
  \cup {ArrOfOtherArg, OtherArg}

InitAccess ==
  /\ \E src \in {"A", "B"} : \E cfg \in ReceiverConfigs : recv = Dataset(src, cfg)
  /\ \E cfg \in ArgumentConfigs : arg = Dataset("B", cfg)
  /\ ret = NoRet
  /\ call = NoCall
  /\ chain = 0
  /\ loads = NoLoads

GetPM25 ==
  /\ \E id \in IdArgs :
       /\ ret' = Access(recv, "getPM25", id)
       /\ call' = Call("getPM25", recv, arg, id, "", "", "", "")
  /\ UNCHANGED <<recv, arg, chain, loads>>

GetNowcast ==
  /\ \E id \in IdArgs :
       /\ ret' = Access(recv, "getNowcast", id)
       /\ call' = Call("getNowcast", recv, arg, id, "", "", "", "")
  /\ UNCHANGED <<recv, arg, chain, loads>>

GetDailyStats ==
  /\ \E id \in IdArgs :
       /\ ret' = Access(recv, "getDailyStats", id)
       /\ call' = Call("getDailyStats", recv, arg, id, "", "", "", "")
  /\ UNCHANGED <<recv, arg, chain, loads>>

GetMetadata ==
  /\ \E id \in IdArgs :
       /\ ret' = Access(recv, "getMetadata", id)
       /\ call' = Call("getMetadata", recv, arg, id, "stateCode", "", "", "")
  /\ UNCHANGED <<recv, arg, chain, loads>>

GetMetaObject ==
  /\ \E id \in IdArgs :
       /\ ret' = Access(recv, "getMetaObject", id)
       /\ call' = Call("getMetaObject", recv, arg, id, "", "", "", "")
  /\ UNCHANGED <<recv, arg, chain, loads>>

GetTimezone ==
  /\ \E id \in IdArgs :
       /\ ret' = Access(recv, "getTimezone", id)
       /\ call' = Call("getTimezone", recv, arg, id, "", "", "", "")
  /\ UNCHANGED <<recv, arg, chain, loads>>

NextAccess ==
  \/ GetPM25
  \/ GetNowcast
  \/ GetDailyStats
  \/ GetMetadata
  \/ GetMetaObject
  \/ GetTimezone

SpecAccess == InitAccess /\ [][NextAccess]_vars

\* ------------------------------------------------------------------------
\* trimDate on time axes of many lengths and starting hours, alone and
\* chained as m.trimDate(tz).trimDate(tz)
\* ------------------------------------------------------------------------

\* first instants: local midnight in UTC, one and nine hours after it, late
\* evening, and the hour before the daylight-saving change in Los Angeles
InitTrim ==
  /\ \E start \in {0, 1, 9, 20, 33} :
       \E len \in {3, 24, 40, 50, 72} :
         \E nulls \in {"none", "firstDay", "twoDays", "all"} :
           recv = Dataset("B", Cfg(start, len, nulls))
  /\ arg = Dataset("B", Cfg(1, 3, "none"))
  /\ ret = NoRet
  /\ call = NoCall
  /\ chain = 0
  /\ loads = NoLoads

\* m.trimDate(tz).trimDate(tz); the instance returned by the first call is
\* kept as arg0 of the call
TrimDateTwice ==
  /\ call.op = "none"
  /\ \E tz \in Timezones :
       LET first == Monitor_trimDate(recv, tz)
           m == Monitor(first.ret.meta, first.ret.data)
           second == Monitor_trimDate(m, tz)
       IN /\ first.ret.kind = "monitor"
          /\ recv' = first.this
          /\ ret' = second.ret
          /\ call' = Call("trimDate.trimDate", recv, m, OtherArg, "", "", tz, "")
  /\ UNCHANGED <<arg, chain, loads>>

NextTrim ==
  \/ TrimDate
  \/ TrimDateTwice
  \/ Drop

SpecTrim == InitTrim /\ [][NextTrim]_vars

\* ------------------------------------------------------------------------
\* combine of three instances, grouped both ways
\* ------------------------------------------------------------------------

\* monitor.select(ids) as an instance
Selected(monitor, ids) ==
  LET r == Monitor_select(monitor, ArrArg(ids)).ret
  IN Monitor(r.meta, r.data)

\* instances that share identifiers pairwise, on time axes that overlap,
\* adjoin or lie apart
AssocInstances ==
  {Dataset(src, cfg) :
     src \in {"A", "B"},
     cfg \in {Cfg(0, 3, "none"), Cfg(1, 3, "sparse"), Cfg(5, 2, "none")}}
  \cup {Selected(Dataset("A", Cfg(1, 3, "none")), <<"7", "wa_a1">>),
        Selected(Dataset("B", Cfg(0, 3, "sparse")), <<"or_b2">>)}

InitAssoc ==
  /\ recv \in AssocInstances
  /\ arg \in AssocInstances
  /\ ret = NoRet
  /\ call = NoCall
  /\ chain = 0
  /\ loads = NoLoads

\* [a.combine(b).combine(c), a.combine(b.combine(c))] with a the receiver,
\* b the argument and c a third instance
CombineThree ==
  /\ call.op = "none"
  /\ \E c \in AssocInstances :
       LET ab == Monitor_combine(recv, arg).ret
           bc == Monitor_combine(arg, c).ret
           left == IF ab.kind = "monitor"
                   THEN Monitor_combine(Monitor(ab.meta, ab.data), c).ret
                   ELSE ab
           right == IF bc.kind = "monitor"
                    THEN Monitor_combine(recv, Monitor(bc.meta, bc.data)).ret
                    ELSE bc
       IN /\ ret' = Returned("pair", <<left, right>>)
          /\ call' = Call("combine.combine", recv, c, OtherArg, "", "", "", "")
  /\ UNCHANGED <<recv, arg, chain, loads>>

NextAssoc ==
  \/ CombineThree
  \/ Drop

SpecAssoc == InitAssoc /\ [][NextAssoc]_vars

-----------------------------------------------------------------------------
\* Properties

\* the identifiers of the metadata are unique, the data columns are unique,
\* and the two sets are equal
Binding(m) ==
  /\ Cardinality(Range(getIDs(m))) = Len(getIDs(m))
  /\ Cardinality(Range(m.data.names)) = Len(m.data.names)
  /\ Range(getIDs(m)) = Range(m.data.names)

IdsOf(idsArg) == IF idsArg.t = "string" THEN <<idsArg.s>> ELSE idsArg.a

\* C1: starting from bound instances, after any sequence of select,
\* filterByValue, dropEmpty, trimDate and combine, the identifiers of the
\* metadata are unique and their set equals the set of the data columns other
\* than datetime, in the receiver, in the argument and in every result.
C1_BindingInvariant ==
  /\ Binding(recv)
  /\ Binding(arg)
  /\ (ret.kind = "monitor" => Binding(ret))

\* a result two operators deep whose columns are a strict, reordered subset
C1_Witness ==
  /\ chain >= 1
  /\ call.op = "dropEmpty"
  /\ ret.kind = "monitor"
  /\ Len(getIDs(ret)) = 2
  /\ Len(getIDs(call.this0)) = 3
  /\ getIDs(ret) # ret.data.names

\* C2: an operator never changes its receiver or its argument, whether it
\* returns or throws, and a returned instance is a new object.
C2_NoMutation ==
  call.op # "none" =>
    /\ recv = call.this0
    /\ arg = call.arg0
    /\ (ret.kind = "monitor" => ret.fresh)

\* combine returned tables that differ from both operands
C2_Witness ==
  /\ call.op = "combine"
  /\ ret.kind = "monitor"
  /\ ret.data # recv.data
  /\ ret.data # arg.data
  /\ ret.meta # recv.meta

\* C3: select keeps the order it is given: for a duplicate-free, non-empty
\* list of identifiers of the metadata of a bound instance, the identifiers
\* of the result are that list, the data columns are datetime followed by
\* that list, and a single string gives what the one-element list gives.
C3_SelectOrder ==
  LET ids == IdsOf(call.ids)
  IN ( /\ call.op = "select"
       /\ call.ids.t # "other"
       /\ Binding(call.this0)
       /\ Len(ids) > 0
       /\ Cardinality(Range(ids)) = Len(ids)
       /\ Range(ids) \subseteq Range(getIDs(call.this0)) )
     => /\ ret.kind = "monitor"
        /\ getIDs(ret) = ids
        /\ ret.data.names = ids
        /\ ret.data.datetime = call.this0.data.datetime
        /\ ret = Monitor_select(call.this0, ArrArg(ids)).ret

\* three identifiers selected in an order that is not the order of the metadata
C3_Witness ==
  /\ call.op = "select"
  /\ ret.kind = "monitor"
  /\ Len(getIDs(ret)) = 3
  /\ getIDs(ret) # getIDs(call.this0)
  /\ getIDs(ret) = IdsOf(call.ids)

\* C4: select throws, and returns nothing, when the identifiers are an empty
\* list, neither a string nor a list, a list with a duplicate, or name an
\* identifier that the metadata does not have.
C4_SelectRejects ==
  LET ids == IdsOf(call.ids)
  IN ( /\ call.op = "select"
       /\ \/ call.ids.t = "other"
          \/ Len(ids) = 0
          \/ Cardinality(Range(ids)) # Len(ids)
          \/ \E i \in DOMAIN ids : ids[i] \notin Range(getIDs(call.this0)) )
     => ret.kind = "throw"

\* a list that names an identifier of the metadata twice was rejected
C4_Witness ==
  /\ call.op = "select"
  /\ call.ids.t = "array"
  /\ Len(call.ids.a) = 2
  /\ call.ids.a[1] = call.ids.a[2]
  /\ call.ids.a[1] \in Range(getIDs(call.this0))
  /\ ret.kind = "throw"

\* the cell of column c of table t at the timestamp key, missing when the
\* table has no row at that timestamp
CellAt(t, c, key) ==
  IF IndexOf(t.datetime, key) = 0 THEN UNDEF
  ELSE t.col[c][IndexOf(t.datetime, key)]

\* the operand a column of the combined table was taken from
SourceOf(c) ==
  IF c \in Range(call.this0.data.names) THEN call.this0.data ELSE call.arg0.data

\* C5: for bound instances a and b, the identifiers of a.combine(b) are
\* those of a, in order, followed by those of b that a does not have, in
\* b's order; no identifier occurs twice, the metadata has one row per
\* identifier of the union, the data columns are those identifiers, and
\* combining an instance with a copy of itself keeps its identifiers and
\* its row counts.
C5_CombineIdentifiers ==
  LET idsA == getIDs(call.this0)
      idsB == getIDs(call.arg0)
  IN ( /\ call.op = "combine"
       /\ Binding(call.this0)
       /\ Binding(call.arg0) )
     => /\ ret.kind = "monitor"
        /\ getIDs(ret) = idsA \o FilterIn(idsB, Range(idsB) \ Range(idsA))
        /\ Cardinality(Range(getIDs(ret))) = Len(getIDs(ret))
        /\ Len(ret.meta) = Cardinality(Range(idsA) \cup Range(idsB))
        /\ Range(ret.data.names) = Range(getIDs(ret))
        /\ Len(ret.data.names) = Len(getIDs(ret))
        /\ ( (idsB = idsA /\ call.arg0.data.datetime = call.this0.data.datetime)
             => /\ getIDs(ret) = idsA
                /\ Len(ret.meta) = Len(call.this0.meta)
                /\ numRows(ret.data) = numRows(call.this0.data)
                /\ ret.data.names = call.this0.data.names )

\* the operands share one identifier and each has one the other lacks
C5_Witness ==
  /\ call.op = "combine"
  /\ ret.kind = "monitor"
  /\ Range(getIDs(call.this0)) \cap Range(getIDs(call.arg0)) # {}
  /\ Range(getIDs(call.arg0)) \ Range(getIDs(call.this0)) # {}
  /\ Range(getIDs(call.this0)) \ Range(getIDs(call.arg0)) # {}
  /\ Len(getIDs(ret)) = Len(getIDs(call.this0)) + 1

\* C6 as stated: the datetime column of a.combine(b) holds the timestamps
\* of a and of b, once each, ascending; a cell is null where the operand of
\* its series has no row at the timestamp, and every other cell equals the
\* value the operand holds.
C6_SourceValues ==
  (call.op = "combine" /\ ret.kind = "monitor") =>
    /\ ret.data.datetime =
         SortedSeq(Range(call.this0.data.datetime) \cup Range(call.arg0.data.datetime))
    /\ \A c \in Range(ret.data.names) : \A r \in DOMAIN ret.data.datetime :
         LET key == ret.data.datetime[r]
         IN IF key \notin Range(SourceOf(c).datetime)
            THEN ret.data.col[c][r] = NULL
            ELSE ret.data.col[c][r] = CellAt(SourceOf(c), c, key)

\* C6: the datetime column of a.combine(b) holds the timestamps of a and
\* of b, once each, ascending; a cell is null where the operand of its
\* series has no row at the timestamp, and every other cell equals the value
\* the operand holds rounded to one decimal place.
C6_RoundedSourceValues ==
  (call.op = "combine" /\ ret.kind = "monitor") =>
    /\ ret.data.datetime =
         SortedSeq(Range(call.this0.data.datetime) \cup Range(call.arg0.data.datetime))
    /\ \A c \in Range(ret.data.names) : \A r \in DOMAIN ret.data.datetime :
         LET key == ret.data.datetime[r]
         IN IF key \notin Range(SourceOf(c).datetime)
            THEN ret.data.col[c][r] = NULL
            ELSE ret.data.col[c][r] = round1_cell(CellAt(SourceOf(c), c, key))

\* the time axes differ on both sides, and the receiver holds a value with
\* a second decimal
C6_Witness ==
  /\ call.op = "combine"
  /\ ret.kind = "monitor"
  /\ Range(call.this0.data.datetime) \ Range(call.arg0.data.datetime) # {}
  /\ Range(call.arg0.data.datetime) \ Range(call.this0.data.datetime) # {}
  /\ \E c \in Range(call.this0.data.names) : \E r \in DOMAIN call.this0.data.datetime :
       /\ is_finite(call.this0.data.col[c][r])
       /\ round1_cell(call.this0.data.col[c][r]) # call.this0.data.col[c][r]

\* C7: for an identifier that both a and b have, the metadata row and every
\* value of the series in a.combine(b) come from a: the row is a's row, a
\* cell holds a's value (to one decimal place) where a has a row, and is
\* null where only b has a row; b's values never appear.
C7_ReceiverWins ==
  (call.op = "combine" /\ ret.kind = "monitor") =>
    \A id \in Range(getIDs(call.this0)) \cap Range(getIDs(call.arg0)) :
      /\ \A i \in DOMAIN ret.meta :
           ret.meta[i].deviceDeploymentID = id =>
             /\ i = IndexOf(getIDs(call.this0), id)
             /\ ret.meta[i] = call.this0.meta[i]
      /\ \E i \in DOMAIN ret.meta : ret.meta[i].deviceDeploymentID = id
      /\ id \in Range(call.this0.data.names) =>
           /\ id \in Range(ret.data.names)
           /\ \A r \in DOMAIN ret.data.datetime :
                ret.data.col[id][r] =
                  round1_cell(CellAt(call.this0.data, id, ret.data.datetime[r]))

\* b holds a value of a shared identifier at a timestamp that a lacks, and
\* a metadata row for it that differs from a's
C7_Witness ==
  /\ call.op = "combine"
  /\ ret.kind = "monitor"
  /\ \E id \in Range(call.this0.data.names) \cap Range(call.arg0.data.names) :
       /\ \E i \in DOMAIN call.this0.meta : \E j \in DOMAIN call.arg0.meta :
            /\ call.this0.meta[i].deviceDeploymentID = id
            /\ call.arg0.meta[j].deviceDeploymentID = id
            /\ call.this0.meta[i] # call.arg0.meta[j]
       /\ \E r \in DOMAIN ret.data.datetime :
            /\ ret.data.datetime[r] \notin Range(call.this0.data.datetime)
            /\ is_finite(CellAt(call.arg0.data, id, ret.data.datetime[r]))
            /\ ret.data.col[id][r] = NULL

\* the operators that return an instance
InstanceOperators == {"select", "filterByValue", "dropEmpty", "trimDate", "combine", "collapse"}

\* C8: an operator applied to instances whose data tables are valid
\* time-series tables returns a valid time-series table: the timestamps are
\* one hour apart and every cell is null or a finite number.
C8_ValidOutputs ==
  ( /\ call.op \in InstanceOperators
    /\ ret.kind = "monitor"
    /\ validateDataTable(call.this0.data)
    /\ (call.op = "combine" => validateDataTable(call.arg0.data)) )
  => validateDataTable(ret.data)

\* the series of a table that hold at least one valid observation
NonEmptySeries(table) ==
  {c \in Range(table.names) : \E r \in DOMAIN table.col[c] : is_valid(table.col[c][r])}

\* C9: dropEmpty returns an instance whose series are exactly those of the
\* receiver with at least one valid observation and whose metadata rows are
\* exactly the rows of those identifiers; datetime and every row are kept;
\* with no valid observation at all the result has only the datetime column
\* and no metadata row.
C9_DropEmpty ==
  call.op = "dropEmpty" =>
    /\ ret.kind = "monitor"
    /\ Range(ret.data.names) = NonEmptySeries(call.this0.data)
    /\ Cardinality(Range(ret.data.names)) = Len(ret.data.names)
    /\ ret.meta = SelectSeq(call.this0.meta,
                    LAMBDA row : row.deviceDeploymentID \in NonEmptySeries(call.this0.data))
    /\ ret.data.datetime = call.this0.data.datetime
    /\ (NonEmptySeries(call.this0.data) = {} =>
          ret.data.names = <<>> /\ ret.meta = <<>>)

\* one series of three was all null and was dropped, every row was kept
C9_Witness ==
  /\ call.op = "dropEmpty"
  /\ ret.kind = "monitor"
  /\ Len(call.this0.data.names) = 3
  /\ Len(ret.data.names) = 2
  /\ Len(ret.meta) = 2
  /\ numRows(ret.data) = numRows(call.this0.data)
  /\ numRows(ret.data) > 0

\* the time axis holds a complete local day of the zone: an hour 0 followed,
\* before the next hour 0, by an hour 23
HasCompleteLocalDay(tz, datetime) ==
  \E i \in DOMAIN datetime : \E j \in DOMAIN datetime :
    /\ i <= j
    /\ LocalHour(tz, datetime[i]) = 0
    /\ LocalHour(tz, datetime[j]) = 23
    /\ \A k \in (i + 1)..j : LocalHour(tz, datetime[k]) # 0

\* C10: for a recognized zone and an axis that holds a complete local day,
\* trimDate returns a contiguous sub-range of the rows whose first timestamp
\* is local hour 0 and whose last timestamp is local hour 23, and leaves the
\* metadata unchanged.
C10_TrimDate ==
  ( /\ call.op = "trimDate"
    /\ KnownZone(call.timezone)
    /\ HasCompleteLocalDay(call.timezone, call.this0.data.datetime) )
  => /\ ret.kind = "monitor"
     /\ ret.meta = call.this0.meta
     /\ numRows(ret.data) > 0
     /\ \E first \in DOMAIN call.this0.data.datetime :
          ret.data.datetime =
            SubSeq(call.this0.data.datetime, first, first + numRows(ret.data) - 1)
     /\ LocalHour(call.timezone, ret.data.datetime[1]) = 0
     /\ LocalHour(call.timezone, ret.data.datetime[numRows(ret.data)]) = 23

\* C11: trimDate throws, and returns no instance, when the data table has no
\* rows and when the timezone does not resolve to a recognized zone.
C11_TrimDateRejects ==
  ( /\ call.op = "trimDate"
    /\ \/ numRows(call.this0.data) = 0
       \/ ~KnownZone(call.timezone) )
  => ret.kind = "throw"

\* a receiver without rows, left by an earlier trimDate, was rejected for a
\* recognized zone
C11_Witness ==
  /\ call.op = "trimDate"
  /\ chain >= 1
  /\ numRows(call.this0.data) = 0
  /\ Len(call.this0.data.names) > 0
  /\ KnownZone(call.timezone)
  /\ ret.kind = "throw"

\* C12: collapse of a bound instance with at least one series and one row
\* returns one metadata row and one data column, the column is named newID,
\* and the deviceDeploymentID of the metadata row equals the column name.
C12_CollapseBound ==
  ( /\ call.op = "collapse"
    /\ Binding(call.this0)
    /\ Len(getIDs(call.this0)) >= 1
    /\ numRows(call.this0.data) >= 1 )
  => /\ ret.kind = "monitor"
     /\ Len(ret.meta) = 1
     /\ ret.data.names = <<"avg">>
     /\ ret.meta[1].deviceDeploymentID = ret.data.names[1]

\* C13: the data table that collapse returns has the datetime values of the
\* receiver, one row per timestamp, in the same order.
C13_CollapseTimeAxis ==
  (call.op = "collapse" /\ ret.kind = "monitor") =>
    /\ ret.data.datetime = call.this0.data.datetime
    /\ \A c \in Range(ret.data.names) :
         Len(ret.data.col[c]) = numRows(call.this0.data)

\* a receiver of several series with a timestamp at which none has a value
C13_Witness ==
  /\ call.op = "collapse"
  /\ ret.kind = "monitor"
  /\ Len(getIDs(call.this0)) >= 2
  /\ numRows(ret.data) >= 4
  /\ \E r \in DOMAIN call.this0.data.datetime :
       \A c \in Range(call.this0.data.names) : ~is_valid(call.this0.data.col[c][r])
  /\ \E r \in DOMAIN call.this0.data.datetime :
       \E c \in Range(call.this0.data.names) : is_valid(call.this0.data.col[c][r])

\* the valid values the series of the receiver hold in row r
ValidAt(r) ==
  LET ids == getIDs(call.this0)
  IN SelectSeq([i \in DOMAIN ids |-> call.this0.data.col[ids[i]][r]], is_valid)

\* C14 as stated: the value collapse("mean") gives at a timestamp equals the
\* arithmetic mean of the non-null values of the series at that timestamp,
\* and is null when no series has one.
C14_ExactMean ==
  (call.op = "collapse" /\ call.FUN = "mean" /\ ret.kind = "monitor") =>
    \A r \in DOMAIN ret.data.datetime :
      LET cell == ret.data.col[ret.data.names[1]][r]
          n == Len(ValidAt(r))
      IN IF n = 0 THEN cell = NULL
         ELSE cell.k = "num" /\ cell.v * n = SumCells(ValidAt(r))

\* C14: the value collapse("mean") gives at a timestamp is the arithmetic
\* mean of the non-null values of the series at that timestamp rounded to
\* one decimal place (half up); missing values neither count as zero nor
\* enter the divisor; the value is null when no series has a valid value.
C14_RoundedMean ==
  (call.op = "collapse" /\ call.FUN = "mean" /\ ret.kind = "monitor") =>
    \A r \in DOMAIN ret.data.datetime :
      LET cell == ret.data.col[ret.data.names[1]][r]
          n == Len(ValidAt(r))
          sum == SumCells(ValidAt(r))
      IN IF n = 0 THEN cell = NULL
         ELSE /\ cell.k = "num"
              /\ cell.v % 10 = 0
              /\ cell.v * n - 5 * n <= sum
              /\ sum < cell.v * n + 5 * n

\* a timestamp at which one of three series is null and the mean of the
\* other two has more than one decimal, and a timestamp with no value
C14_Witness ==
  /\ call.op = "collapse"
  /\ call.FUN = "mean"
  /\ ret.kind = "monitor"
  /\ Len(getIDs(call.this0)) = 3
  /\ \E r \in DOMAIN ret.data.datetime :
       /\ Len(ValidAt(r)) = 2
       /\ ret.data.col[ret.data.names[1]][r].v * 2 # SumCells(ValidAt(r))
  /\ \E r \in DOMAIN ret.data.datetime : Len(ValidAt(r)) = 0

\* what the cleaning rules give for a raw cell: "NA" is null, a negative
\* number is 0, a non-negative finite number is kept, null stays null, text
\* is read as the number it spells, and a result that is not finite is null
CleanedAs(raw) ==
  CASE raw = Str("NA") -> NULL
    [] raw = NULL -> NULL
    [] raw.k = "num" /\ raw.v < 0 -> Num(0)
    [] raw.k = "num" /\ raw.v >= 0 -> raw
    [] raw = Str("-5") -> Num(0)
    [] raw = Str("12.3") -> Num(1230)
    [] raw = Str("0.04") -> Num(4)
    [] raw = NEGINF -> Num(0)
    [] OTHER -> NULL

\* C15: in the table parseData returns, every cell of every column other
\* than datetime is the raw cell cleaned: "NA" became null, a negative number
\* became exactly 0, a non-negative finite number was kept, a null stayed
\* null (the clamp does not turn it into 0), and NaN or Infinity became null.
C15_Cleaning ==
  (call.op = "parseData" /\ ret.kind = "table") =>
    /\ ret.data.names = call.table.names
    /\ ret.data.datetime = call.table.datetime
    /\ \A c \in Range(call.table.names) : \A r \in DOMAIN call.table.col[c] :
         ret.data.col[c][r] = CleanedAs(call.table.col[c][r])

\* a table with "NA", a negative number, a null and a kept number was cleaned
C15_Witness ==
  /\ call.op = "parseData"
  /\ ret.kind = "table"
  /\ \E c \in Range(call.table.names) : \E r \in DOMAIN call.table.col[c] :
       call.table.col[c][r] = Str("NA") /\ ret.data.col[c][r] = NULL
  /\ \E c \in Range(call.table.names) : \E r \in DOMAIN call.table.col[c] :
       call.table.col[c][r] = Num(-500) /\ ret.data.col[c][r] = Num(0)
  /\ \E c \in Range(call.table.names) : \E r \in DOMAIN call.table.col[c] :
       call.table.col[c][r] = NULL /\ ret.data.col[c][r] = NULL
  /\ \E c \in Range(call.table.names) : \E r \in DOMAIN call.table.col[c] :
       call.table.col[c][r] = Num(1230) /\ ret.data.col[c][r] = Num(1230)

\* the conditions of a valid time-series table: a datetime column, every
\* datetime a valid instant in the zone UTC, each one hour after the one
\* before, every other cell null or a finite number
IsValidTimeSeries(table) ==
  /\ table.hasDatetime
  /\ \A i \in DOMAIN table.datetime :
       /\ table.datetime[i].isDateTime
       /\ table.datetime[i].isValid
       /\ table.datetime[i].zoneName = "UTC"
  /\ \A i \in DOMAIN table.datetime :
       i > 1 => table.datetime[i].ts = table.datetime[i - 1].ts + 1
  /\ \A c \in Range(table.names) : \A r \in DOMAIN table.col[c] :
       table.col[c][r].k \in {"null", "num"}

\* C16: validateDataTable returns without error exactly when the table is a
\* valid time-series table, throws in every other case, and leaves the table
\* as it was.
C16_ValidationIff ==
  call.op = "validateDataTable" =>
    /\ (ret.kind = "void") = IsValidTimeSeries(call.table)
    /\ (ret.kind = "throw") = ~IsValidTimeSeries(call.table)
    /\ ret.data = call.table

\* a three-row table that holds a null and a number was accepted
C16_Witness ==
  /\ call.op = "validateDataTable"
  /\ ret.kind = "void"
  /\ Len(call.table.datetime) = 3
  /\ \E c \in Range(call.table.names) : \E r \in DOMAIN call.table.col[c] :
       call.table.col[c][r] = NULL
  /\ \E c \in Range(call.table.names) : \E r \in DOMAIN call.table.col[c] :
       call.table.col[c][r].k = "num"

\* C17: parseData hands out validated tables only: whatever file a load
\* received, the table parseData returns for it passes validateDataTable, and
\* the data table of the instance passes validateDataTable after every load
\* (a load that did not succeed leaves the data table it found).
C17_ValidatedData ==
  /\ validateDataTable_csv(recv.data)
  /\ \A l \in Loads :
       loads[l].request["data"] = "fulfilled" =>
         \A src \in Sources :
           LET parsed == parseData(DataFile(src, loads[l].value["data"]))
           IN parsed.kind = "table" => validateDataTable_csv(parsed.data)

\* a load has succeeded and the instance holds its cleaned two-row table
C17_Witness ==
  /\ \E l \in Loads : loads[l].pc = "resolved"
  /\ Len(recv.data.datetime) = 2
  /\ \E c \in Range(recv.data.names) :
       recv.data.col[c] = <<Num(0), NULL>>

\* C19: a load with a failed fetch has no partial effect. Both files are
\* requested when the call starts and the call goes on only when both
\* requests have settled; when a request of the call has been rejected the
\* call rejects, and no step of that call replaces meta or data.
C19_NoPartialEffect ==
  [][\A l \in Loads :
       /\ (loads[l].pc = "idle" /\ loads'[l].pc = "fetching") =>
            \A f \in Files : loads'[l].request[f] = "pending"
       /\ (loads[l].pc = "fetching" /\ loads'[l].pc # "fetching") =>
            \A f \in Files : loads[l].request[f] \in {"fulfilled", "rejected"}
       /\ (loads'[l] # loads[l] /\ loads'[l].pc = "fetching") => recv' = recv
       /\ (loads'[l] # loads[l] /\ \E f \in Files : loads'[l].request[f] = "rejected") =>
            /\ recv' = recv
            /\ loads'[l].pc \in {"fetching", "rejected"}]_vars

\* a call has rejected with its metadata file delivered and its data file
\* failed, on an instance that an earlier load had filled
C19_Witness ==
  \E l \in Loads :
    /\ loads[l].pc = "rejected"
    /\ loads[l].request["meta"] = "fulfilled"
    /\ loads[l].request["data"] = "rejected"
    /\ Len(recv.meta) > 0
    /\ Len(recv.data.datetime) = 2

\* the greatest zero-based row at which a series holds a valid value
LastValidRow(column) ==
  CHOOSE r \in {q - 1 : q \in DOMAIN column} :
    /\ is_valid(column[r + 1])
    /\ \A q \in DOMAIN column : is_valid(column[q]) => q - 1 <= r

\* C18: getCurrentStatus on an instance that satisfies the binding invariant
\* returns one row per metadata row with the metadata columns unchanged, and
\* for every series with at least one valid value lastValidDatetime is the
\* timestamp of the last row where the series is valid and lastValidPM_25 is
\* the value of the series at that row.
C18_LastValid ==
  (call.op = "getCurrentStatus" /\ Binding(call.this0)) =>
    /\ ret.kind = "table"
    /\ Len(ret.meta) = Len(call.this0.meta)
    /\ \A i \in DOMAIN call.this0.meta :
         LET row == call.this0.meta[i]
             out == ret.meta[i]
             column == call.this0.data.col[row.deviceDeploymentID]
         IN /\ out.deviceDeploymentID = row.deviceDeploymentID
            /\ out.locationName = row.locationName
            /\ out.stateCode = row.stateCode
            /\ out.longitude = row.longitude
            /\ out.latitude = row.latitude
            /\ (\E q \in DOMAIN column : is_valid(column[q])) =>
                 /\ out.lastValidDatetime =
                      call.this0.data.datetime[LastValidRow(column) + 1]
                 /\ out.lastValidPM_25 = column[LastValidRow(column) + 1]

\* C20: filterByValue(column, value) on an instance that satisfies the
\* binding invariant returns the metadata rows whose column equals value
\* (as numbers, after parsing value, for a numeric column; as text for a
\* string column) in their original order, with exactly their series as data
\* columns; it throws only when the column does not exist or when value does
\* not parse for a numeric column (every column of the instances here holds
\* numbers or strings).
C20_FilterByValue ==
  (call.op = "filterByValue" /\ Binding(call.this0)) =>
    LET numeric == call.column \in MetaColumns \ StringColumns
        matches(row) == IF numeric THEN row[call.column] = parseFloat(call.value)
                        ELSE row[call.column] = call.value
        rows == SelectSeq(call.this0.meta, matches)
        mustThrow == \/ call.column \notin MetaColumns
                     \/ numeric /\ parseFloat(call.value) = NAN
    IN /\ (ret.kind = "throw") = mustThrow
       /\ ret.kind # "throw" =>
            /\ ret.kind = "monitor"
            /\ ret.meta = rows
            /\ ret.data.names = [i \in DOMAIN rows |-> rows[i].deviceDeploymentID]
            /\ ret.data.datetime = call.this0.data.datetime

\* the string an identifier argument stands for, when it has an accepted
\* shape: a string, or a one-element list holding a string
IdOf(id) == IF id.t = "string" THEN id.s ELSE id.a[1]

AcceptedShape(id) == id.t = "string" \/ (id.t = "array" /\ Len(id.a) = 1)

\* C21: a per-device accessor returns only for an argument of an accepted
\* shape that names a deviceDeploymentID of the instance, and throws for
\* every other argument.
C21_AccessorsValidate ==
  call.op \in Accessors =>
    (ret.kind # "throw") =
      (AcceptedShape(call.ids) /\ IdOf(call.ids) \in Range(getIDs(call.this0)))

\* the coordinate v is the arithmetic mean of the finite coordinates of the
\* rows, or null when no row has a finite coordinate
MeanOfValid(v, column) ==
  LET valid == SelectSeq(column, is_finite)
  IN IF Len(valid) = 0 THEN v = NULL
     ELSE v.k = "num" /\ v.v * Len(valid) = SumCells(valid)

\* C22: collapse of a bound instance with at least one series and one row
\* returns an instance whose single metadata row has as longitude (latitude)
\* the arithmetic mean of the finite longitudes (latitudes) of the input
\* rows, missing ones excluded, and null when no input row has a finite one.
C22_CollapseLocation ==
  (/\ call.op = "collapse"
   /\ Binding(call.this0)
   /\ Len(call.this0.meta) > 0
   /\ numRows(call.this0.data) > 0) =>
    /\ ret.kind = "monitor"
    /\ Len(ret.meta) = 1
    /\ MeanOfValid(ret.meta[1].longitude,
                   [i \in DOMAIN call.this0.meta |-> call.this0.meta[i].longitude])
    /\ MeanOfValid(ret.meta[1].latitude,
                   [i \in DOMAIN call.this0.meta |-> call.this0.meta[i].latitude])

\* collapse of three series whose longitudes are two numbers and one missing
\* value gave the mean of the two numbers
C22_Witness ==
  /\ call.op = "collapse"
  /\ ret.kind = "monitor"
  /\ Len(call.this0.meta) = 3
  /\ \E i \in DOMAIN call.this0.meta : call.this0.meta[i].longitude = NAN
  /\ ret.meta[1].longitude = Num(-145200)

\* every file of a call is requested at most twice, a further request for a
\* file is issued only when the pending request for that file fails, and a
\* file that was delivered is not requested again
RetryBoundedAndOrdered(l, f) ==
  /\ loads'[l].requests[f] <= 2
  /\ loads'[l].requests[f] > loads[l].requests[f] =>
       \/ loads[l].pc = "idle" /\ loads'[l].requests[f] = 1
       \/ /\ loads[l].request[f] = "pending"
          /\ loads'[l].attempt[f] = loads[l].attempt[f] + 1
          /\ loads'[l].requests[f] = loads[l].requests[f] + 1
  /\ loads[l].request[f] = "fulfilled" =>
       /\ loads'[l].requests[f] <= loads[l].requests[f]
       /\ loads'[l].request[f] = "fulfilled"

C24_AllMissingFallsBack ==
  (/\ call.op = "getCurrentStatus"
   /\ Binding(call.this0)
   /\ numRows(call.this0.data) > 0) =>
    /\ ret.kind = "table"
    /\ \A i \in DOMAIN call.this0.meta :
         LET column == call.this0.data.col[call.this0.meta[i].deviceDeploymentID]
             noValid == \A q \in DOMAIN column : ~is_valid(column[q])
         IN /\ noValid =>
                 /\ ret.meta[i].lastValidDatetime = call.this0.data.datetime[1]
                 /\ ret.meta[i].lastValidPM_25 = column[1]
            /\ (ret.meta[i].lastValidPM_25 = NULL) = noValid

\* the row a series reports: its last valid row, or row 0 when it has none
StatusRow(column) ==
  IF \E q \in DOMAIN column : is_valid(column[q]) THEN LastValidRow(column) ELSE 0

\* C30: in the table getCurrentStatus returns for a bound instance with at
\* least one row, lastValidDatetime and lastValidPM_25 of row i are those of
\* the series named by the deviceDeploymentID of metadata row i, whatever the
\* spelling of the identifiers and the order of rows and columns.
C30_StatusAligned ==
  (/\ call.op = "getCurrentStatus"
   /\ Binding(call.this0)
   /\ numRows(call.this0.data) > 0) =>
    /\ ret.kind = "table"
    /\ \A i \in DOMAIN call.this0.meta :
         LET column == call.this0.data.col[call.this0.meta[i].deviceDeploymentID]
         IN /\ ret.meta[i].deviceDeploymentID = call.this0.meta[i].deviceDeploymentID
            /\ ret.meta[i].lastValidDatetime =
                 call.this0.data.datetime[StatusRow(column) + 1]
            /\ ret.meta[i].lastValidPM_25 = column[StatusRow(column) + 1]

\* C25: when both files of a load were delivered and the call rejects
\* (parseData threw on the data file), meta and data of the instance are
\* what they were before that step.
C25_FailedParseLeavesInstance ==
  [][\A l \in Loads :
       (/\ loads[l].pc = "fetching"
        /\ \A f \in Files : loads[l].request[f] = "fulfilled"
        /\ loads'[l].pc = "rejected") => recv' = recv]_vars

\* the instance holds the metadata and the cleaned time series of the one
\* archive src
PairOf(m, src) ==
  /\ m.meta = [i \in 1..Len(DatasetIDs(src)) |-> MetaRow(src, DatasetIDs(src)[i])]
  /\ m.data.names = DatasetIDs(src)
  /\ m.data.datetime = DataFile(src, "hourly").datetime
  /\ \A id \in Range(DatasetIDs(src)) :
       m.data.col[id] = [r \in 1..2 |-> CleanedAs(DataFile(src, "hourly").col[id][r])]

\* C26: as long as no load was delivered a data file that fails to parse,
\* the instance holds either the pair it was constructed with or the
\* metadata and time series of one single archive, in every state and for
\* every interleaving of the loads.
C26_NoMixedDatasets ==
  (\A l \in Loads : loads[l].value["data"] # "gap") =>
    \/ recv = Monitor(<<>>, CsvTable(TRUE, <<>>, <<>>, <<>>))
    \/ \E src \in Sources : PairOf(recv, src)

\* one load has filled the instance from archive A while another load, of
\* archive B, has its metadata file and waits for its data file
C26_Witness ==
  /\ PairOf(recv, "A")
  /\ \E l1 \in Loads : \E l2 \in Loads :
       /\ loads[l1].pc = "resolved"
       /\ loads[l2].pc = "fetching"
       /\ loads[l2].source = "B"
       /\ loads[l2].request["meta"] = "fulfilled"
       /\ loads[l2].request["data"] = "pending"

\* C27: for a recognized zone, trimDate of a valid hourly table returns a
\* table that is empty or begins at local hour 0 and ends at local hour 23,
\* and whose rows are consecutive rows of the input.
C27_NoPartialDay ==
  (/\ call.op = "trimDate"
   /\ KnownZone(call.timezone)
   /\ numRows(call.this0.data) > 0
   /\ validateDataTable(call.this0.data)) =>
    /\ ret.kind = "monitor"
    /\ \/ numRows(ret.data) = 0
       \/ /\ LocalHour(call.timezone, ret.data.datetime[1]) = 0
          /\ LocalHour(call.timezone, ret.data.datetime[numRows(ret.data)]) = 23
          /\ \E first \in DOMAIN call.this0.data.datetime :
               ret.data.datetime =
                 SubSeq(call.this0.data.datetime, first, first + numRows(ret.data) - 1)

\* C28: when m.trimDate(tz) is not empty, m.trimDate(tz).trimDate(tz) has
\* the same rows and the same metadata as m.trimDate(tz).
C28_TrimDateIdempotent ==
  (call.op = "trimDate.trimDate" /\ numRows(call.arg0.data) > 0) =>
    /\ ret.kind = "monitor"
    /\ ret.meta = call.arg0.meta
    /\ ret.data = call.arg0.data

\* C29: for instances a, b, c that satisfy the binding invariant,
\* a.combine(b).combine(c) and a.combine(b.combine(c)) have the same
\* identifier list in the same order, the same time axis and the same value
\* in every cell.
C29_CombineAssociative ==
  (/\ call.op = "combine.combine"
   /\ Binding(call.this0) /\ Binding(arg) /\ Binding(call.arg0)) =>
    LET left == ret.value[1]
        right == ret.value[2]
    IN /\ left.kind = "monitor" /\ right.kind = "monitor"
       /\ getIDs(left) = getIDs(right)
       /\ left.data.names = right.data.names
       /\ left.data.datetime = right.data.datetime
       /\ left.data.col = right.data.col

\* three instances that share "7" pairwise on three different time axes,
\* the first of them with hours the second does not have
C29_Witness ==
  /\ call.op = "combine.combine"
  /\ call.this0 = Dataset("A", Cfg(0, 3, "none"))
  /\ arg = Dataset("B", Cfg(5, 2, "none"))
  /\ call.arg0 = Selected(Dataset("A", Cfg(1, 3, "none")), <<"7", "wa_a1">>)
  /\ getIDs(ret.value[1]) = <<"wa_a1", "20", "7", "or_b2">>
  /\ ret.value[1].data.datetime = <<0, 1, 2, 3, 5, 6>>
  /\ ret.value[1].data = ret.value[2].data

=============================================================================
